---- MODULE Spec2Model ----
(***************************************************************************)
(* Twisted Hessian curve arithmetic over the ring F_q[eps]/(eps^2) and the *)
(* Diffie-Hellman exchange built on it (hessian-rs).                       *)
(*                                                                         *)
(* Fq values are naturals in 0..q-1, ring elements are pairs <<a, b>> for  *)
(* a + b*eps, projective points are triples <<x, y, z>> of ring elements.  *)
(* The const generic Q of the Rust types is the trailing argument qq.      *)
(* A call that can panic returns a record [ok, ...]: ok = FALSE is the     *)
(* panic (assert!/panic!/expect), ok = TRUE carries the returned value.    *)
(*                                                                         *)
(* Rust evaluates an argument or a let binding once.  Val({e : x \in {v}}) *)
(* is that binding: v is evaluated once and e reads the value as x.        *)
(***************************************************************************)
EXTENDS Integers, Sequences, FiniteSets, TLC

VARIABLES q, a, d, P, Q, R, n, k, sk, op, out

vars == <<q, a, d, P, Q, R, n, k, sk, op, out>>

(***************************************************************************)
(* Bounds of the model and constants of the known-answer tests.            *)
(***************************************************************************)
MaxQ == 3

MaxEps == 0

KatMaxScalar == 45

KatQ == 5

KatOrder == 45

PaperQ == 11

MaxModulus == 16

MaxKey == 55

MaxMul == 2

IsPrime(c) == c > 1 /\ \A m \in 2..(c - 1) : c % m # 0

Moduli == {c \in 2..MaxQ : IsPrime(c)}

Min(x, y) == IF x < y THEN x ELSE y

\* the element of a one-element set
Val(S) == CHOOSE r \in S : TRUE

(***************************************************************************)
(* field.rs                                                                *)
(***************************************************************************)
Fq_new(value, qq) == value % qq

Fq_add(x, y, qq) == Fq_new((x + y) % qq, qq)

Fq_sub(x, y, qq) ==
    Val({Fq_new(IF diff < 0 THEN diff + qq ELSE diff, qq) :
            diff \in {x - y}})

Fq_mul(x, y, qq) == Fq_new((x * y) % qq, qq)

PanicFq == [ok |-> FALSE, v |-> 0]

OkFq(x) == [ok |-> TRUE, v |-> x]

\* the while loop of inv: one call is one iteration.  old_r and r stay in
\* 0..q and the coefficients within -q..q, far inside i64, so the checked
\* operations never fail; old_r and r are never negative, so checked_div
\* is the floor division
RECURSIVE inv_loop(_, _, _, _, _, _)
inv_loop(old_r, r, old_s, s, old_t, t) ==
    IF r # 0
    THEN Val({inv_loop(r, r1, s, s1, t, t1) :
                 r1 \in {old_r - (old_r \div r) * r},
                 s1 \in {old_s - (old_r \div r) * s},
                 t1 \in {old_t - (old_r \div r) * t}})
    ELSE [old_r |-> old_r, old_s |-> old_s, old_t |-> old_t]

\* inv without the assert that the gcd is 1
Fq_inv_no_gcd_check(x, qq) ==
    IF x = 0
    THEN PanicFq
    ELSE Val({Val({IF result < 0 THEN PanicFq
                   ELSE OkFq(Fq_new(result, qq)) :
                      result \in {IF e.old_s < 0 THEN e.old_s + qq
                                  ELSE e.old_s}}) :
                 e \in {inv_loop(x, qq, 1, 0, 0, 1)}})

\* inv that returns old_s without adding Q to a negative coefficient
Fq_inv_no_wrap(x, qq) ==
    IF x = 0
    THEN PanicFq
    ELSE Val({IF e.old_r # 1 THEN PanicFq ELSE OkFq(e.old_s) :
                 e \in {inv_loop(x, qq, 1, 0, 0, 1)}})

\* self.inv() on the element x of Fq<qq>; a negative result cast to u64
\* fails the value < i64::MAX assert of Fq::new
Fq_inv(x, qq) ==
    IF x = 0
    THEN PanicFq
    ELSE Val({IF e.old_r # 1
              THEN PanicFq
              ELSE Val({IF result < 0 THEN PanicFq
                        ELSE OkFq(Fq_new(result, qq)) :
                           result \in {IF e.old_s < 0 THEN e.old_s + qq
                                       ELSE e.old_s}}) :
                 e \in {inv_loop(x, qq, 1, 0, 0, 1)}})

\* the while loop of Fq::pow: one call is one iteration
RECURSIVE Fq_pow_loop(_, _, _, _)
Fq_pow_loop(result, base, exp, qq) ==
    IF exp > 0
    THEN Val({Fq_pow_loop(r1, b1, exp \div 2, qq) :
                 r1 \in {IF exp % 2 = 1 THEN Fq_mul(result, base, qq)
                         ELSE result},
                 b1 \in {Fq_mul(base, base, qq)}})
    ELSE result

Fq_pow(x, exponent, qq) == Fq_pow_loop(Fq_new(1, qq), x, exponent, qq)

\* Fq::<qq>::is_minus_three_square(): Q.checked_sub(3) is taken first and
\* fails for Q below 3
is_minus_three_square(qq) ==
    IF qq < 3
    THEN [ok |-> FALSE, b |-> FALSE]
    ELSE IF qq % 2 = 0
    THEN [ok |-> TRUE, b |-> FALSE]
    ELSE [ok |-> TRUE,
          b |-> Fq_pow(Fq_new(qq - 3, qq), (qq - 1) \div 2, qq) = 1]

(***************************************************************************)
(* ring.rs                                                                 *)
(***************************************************************************)
RingElement_new(x, y) == <<x, y>>

from_field(x, qq) == RingElement_new(x, Fq_new(0, qq))

constant(x) == x[1]

epsilon_coeff(x) == x[2]

is_invertible(x) == constant(x) # 0

Ring_add(x, y, qq) ==
    Val({RingElement_new(Fq_add(self[1], other[1], qq),
                         Fq_add(self[2], other[2], qq)) :
            self \in {x}, other \in {y}})

Ring_sub(x, y, qq) ==
    Val({RingElement_new(Fq_sub(self[1], other[1], qq),
                         Fq_sub(self[2], other[2], qq)) :
            self \in {x}, other \in {y}})

Ring_mul(x, y, qq) ==
    Val({LET ac == Fq_mul(self[1], other[1], qq)
             ad == Fq_mul(self[1], other[2], qq)
             bc == Fq_mul(self[2], other[1], qq)
         IN  RingElement_new(ac, Fq_add(ad, bc, qq)) :
            self \in {x}, other \in {y}})

PanicRing == [ok |-> FALSE, v |-> <<0, 0>>]

OkRing(x) == [ok |-> TRUE, v |-> x]

\* inv with the eps coefficient b * a^-2 where the code has its negation
Ring_inv_not_negated(x, qq) ==
    Val({IF ~is_invertible(self)
         THEN PanicRing
         ELSE Val({IF ~a_inv.ok
                   THEN PanicRing
                   ELSE OkRing(RingElement_new(
                            a_inv.v,
                            Fq_mul(self[2], Fq_mul(a_inv.v, a_inv.v, qq),
                                   qq))) :
                      a_inv \in {Fq_inv(self[1], qq)}}) :
            self \in {x}})

\* inv with the eps coefficient Q - b * a^-2 not passed through Fq::new
Ring_inv_unreduced(x, qq) ==
    Val({IF ~is_invertible(self)
         THEN PanicRing
         ELSE Val({IF ~a_inv.ok
                   THEN PanicRing
                   ELSE Val({OkRing(RingElement_new(
                                 a_inv.v, qq - b_a_inv_squared)) :
                                b_a_inv_squared \in
                                    {Fq_mul(self[2],
                                            Fq_mul(a_inv.v, a_inv.v, qq),
                                            qq)}}) :
                      a_inv \in {Fq_inv(self[1], qq)}}) :
            self \in {x}})

\* self.inv() on the ring element x
Ring_inv(x, qq) ==
    Val({IF ~is_invertible(self)
         THEN PanicRing
         ELSE Val({IF ~a_inv.ok
                   THEN PanicRing
                   ELSE Val({OkRing(RingElement_new(
                                 a_inv.v, Fq_new(qq - b_a_inv_squared, qq))) :
                                b_a_inv_squared \in
                                    {Fq_mul(self[2],
                                            Fq_mul(a_inv.v, a_inv.v, qq),
                                            qq)}}) :
                      a_inv \in {Fq_inv(self[1], qq)}}) :
            self \in {x}})

\* the while loop of RingElement::pow: one call is one iteration
RECURSIVE Ring_pow_loop(_, _, _, _)
Ring_pow_loop(result, base, exp, qq) ==
    IF exp > 0
    THEN Val({Ring_pow_loop(r1, b1, exp \div 2, qq) :
                 r1 \in {IF exp % 2 = 1 THEN Ring_mul(result, base, qq)
                         ELSE result},
                 b1 \in {Ring_mul(base, base, qq)}})
    ELSE result

Ring_pow(x, exponent, qq) ==
    Ring_pow_loop(RingElement_new(Fq_new(1, qq), Fq_new(0, qq)), x,
                  exponent, qq)

Ring(qq) == (0..(qq - 1)) \X (0..(qq - 1))

(***************************************************************************)
(* projective.rs                                                           *)
(***************************************************************************)
Projective_new(x, y, z) == <<x, y, z>>

Triples(qq) == Ring(qq) \X Ring(qq) \X Ring(qq)

identity(qq) ==
    Projective_new(from_field(Fq_new(0, qq), qq),
                   from_field(Fq_new(qq - 1, qq), qq),
                   from_field(Fq_new(1, qq), qq))

is_identity(p1, qq) ==
    /\ constant(p1[1]) = 0
    /\ constant(p1[2]) = qq - 1
    /\ constant(p1[3]) = 1

\* the six-component zero test written out in is_equal and in add
is_zero(t) ==
    \E x \in {t[1]}, y \in {t[2]}, z \in {t[3]} :
        /\ constant(x) = 0 /\ epsilon_coeff(x) = 0
        /\ constant(y) = 0 /\ epsilon_coeff(y) = 0
        /\ constant(z) = 0 /\ epsilon_coeff(z) = 0

PanicBool == [ok |-> FALSE, b |-> FALSE]

PanicPoint == [ok |-> FALSE, pt |-> <<<<0, 0>>, <<0, 0>>, <<0, 0>>>>]

PanicNum == [ok |-> FALSE, n |-> 0]

OkBool(v) == [ok |-> TRUE, b |-> v]

OkPoint(v) == [ok |-> TRUE, pt |-> v]

OkNum(v) == [ok |-> TRUE, n |-> v]

\* an assert!(cond) over a call that may itself panic
asserts(c) == \E r \in {c} : r.ok /\ r.b

\* is_equal that refuses [0:0:0] only when both operands are [0:0:0]
is_equal_both_zero(p1, p2, qq) ==
    Val({IF is_zero(self) /\ is_zero(other)
         THEN PanicBool
         ELSE OkBool(/\ Ring_mul(self[1], other[3], qq)
                           = Ring_mul(other[1], self[3], qq)
                     /\ Ring_mul(self[2], other[3], qq)
                           = Ring_mul(other[2], self[3], qq)
                     /\ Ring_mul(self[3], other[1], qq)
                           = Ring_mul(other[3], self[1], qq)) :
            self \in {p1}, other \in {p2}})

is_equal(p1, p2, qq) ==
    Val({LET self_is_zero == is_zero(self)
             other_is_zero == is_zero(other)
             x1z2 == Ring_mul(self[1], other[3], qq)
             x2z1 == Ring_mul(other[1], self[3], qq)
             y1z2 == Ring_mul(self[2], other[3], qq)
             y2z1 == Ring_mul(other[2], self[3], qq)
             z1x2 == Ring_mul(self[3], other[1], qq)
             z2x1 == Ring_mul(other[3], self[1], qq)
         IN  IF self_is_zero \/ other_is_zero
             THEN PanicBool
             ELSE OkBool(x1z2 = x2z1 /\ y1z2 = y2z1 /\ z1x2 = z2x1) :
            self \in {p1}, other \in {p2}})

verify_curve_constraints(aa, dd, qq) ==
    LET twenty_seven == from_field(Fq_new(27 % qq, qq), qq)
        twenty_seven_a == Ring_mul(twenty_seven, aa, qq)
        d_squared == Ring_mul(dd, dd, qq)
        d_cubed == Ring_mul(d_squared, dd, qq)
        term == Ring_sub(twenty_seven_a, d_cubed, qq)
        condition == Ring_mul(aa, term, qq)
    IN  is_invertible(condition)

\* is_on_curve comparing the constant parts of the two sides only
is_on_curve_constant_only(p1, aa, dd, qq) ==
    Val({LET x_cubed == Ring_mul(Ring_mul(self[1], self[1], qq), self[1], qq)
             y_cubed == Ring_mul(Ring_mul(self[2], self[2], qq), self[2], qq)
             z_cubed == Ring_mul(Ring_mul(self[3], self[3], qq), self[3], qq)
             axyz == Ring_add(Ring_add(Ring_mul(aa, x_cubed, qq), y_cubed,
                                       qq), z_cubed, qq)
             dxyz == Ring_mul(Ring_mul(Ring_mul(dd, self[1], qq), self[2],
                                       qq), self[3], qq)
         IN  IF ~verify_curve_constraints(aa, dd, qq)
             THEN PanicBool
             ELSE OkBool(constant(axyz) = constant(dxyz)) :
            self \in {p1}})

is_on_curve(p1, aa, dd, qq) ==
    Val({LET d_cubed == Ring_mul(Ring_mul(dd, dd, qq), dd, qq)
             twenty_seven == from_field(Fq_new(27 % qq, qq), qq)
             twenty_seven_a == Ring_mul(twenty_seven, aa, qq)
             term == Ring_sub(twenty_seven_a, d_cubed, qq)
             condition == Ring_mul(aa, term, qq)
             x_cubed == Ring_mul(Ring_mul(self[1], self[1], qq), self[1], qq)
             y_cubed == Ring_mul(Ring_mul(self[2], self[2], qq), self[2], qq)
             z_cubed == Ring_mul(Ring_mul(self[3], self[3], qq), self[3], qq)
             axyz == Ring_add(Ring_add(Ring_mul(aa, x_cubed, qq), y_cubed,
                                       qq), z_cubed, qq)
             dxyz == Ring_mul(Ring_mul(Ring_mul(dd, self[1], qq), self[2],
                                       qq), self[3], qq)
         IN  IF ~is_invertible(condition)
             THEN PanicBool
             ELSE OkBool(axyz = dxyz) :
            self \in {p1}})

negate(self) == Projective_new(self[1], self[3], self[2])

\* formula (1) of add with Z1 squared in both terms of Y3
formula_1_z1_twice(p1, p2, qq) ==
    Val({LET x1_squared == Ring_mul(self[1], self[1], qq)
             x2_squared == Ring_mul(other[1], other[1], qq)
             y1_squared == Ring_mul(self[2], self[2], qq)
             y2_squared == Ring_mul(other[2], other[2], qq)
             z1_squared == Ring_mul(self[3], self[3], qq)
             x3 == Ring_sub(
                 Ring_mul(Ring_mul(x1_squared, other[2], qq), other[3], qq),
                 Ring_mul(Ring_mul(x2_squared, self[2], qq), self[3], qq),
                 qq)
             y3 == Ring_sub(
                 Ring_mul(Ring_mul(z1_squared, other[1], qq), other[2], qq),
                 Ring_mul(Ring_mul(z1_squared, self[1], qq), self[2], qq),
                 qq)
             z3 == Ring_sub(
                 Ring_mul(Ring_mul(y1_squared, other[1], qq), other[3], qq),
                 Ring_mul(Ring_mul(y2_squared, self[1], qq), self[3], qq),
                 qq)
         IN  Projective_new(x3, y3, z3) :
            self \in {p1}, other \in {p2}})

\* formula (1) of add: [X3 : Y3 : Z3]
formula_1(p1, p2, qq) ==
    Val({LET x1_squared == Ring_mul(self[1], self[1], qq)
             x2_squared == Ring_mul(other[1], other[1], qq)
             y1_squared == Ring_mul(self[2], self[2], qq)
             y2_squared == Ring_mul(other[2], other[2], qq)
             z1_squared == Ring_mul(self[3], self[3], qq)
             z2_squared == Ring_mul(other[3], other[3], qq)
             x3 == Ring_sub(
                 Ring_mul(Ring_mul(x1_squared, other[2], qq), other[3], qq),
                 Ring_mul(Ring_mul(x2_squared, self[2], qq), self[3], qq),
                 qq)
             y3 == Ring_sub(
                 Ring_mul(Ring_mul(z1_squared, other[1], qq), other[2], qq),
                 Ring_mul(Ring_mul(z2_squared, self[1], qq), self[2], qq),
                 qq)
             z3 == Ring_sub(
                 Ring_mul(Ring_mul(y1_squared, other[1], qq), other[3], qq),
                 Ring_mul(Ring_mul(y2_squared, self[1], qq), self[3], qq),
                 qq)
         IN  Projective_new(x3, y3, z3) :
            self \in {p1}, other \in {p2}})

\* formula (2) of add with a dropped from Y'3
formula_2_without_a(p1, p2, aa, qq) ==
    Val({LET x1_squared == Ring_mul(self[1], self[1], qq)
             x2_squared == Ring_mul(other[1], other[1], qq)
             y1_squared == Ring_mul(self[2], self[2], qq)
             y2_squared == Ring_mul(other[2], other[2], qq)
             z1_squared == Ring_mul(self[3], self[3], qq)
             z2_squared == Ring_mul(other[3], other[3], qq)
             x3_prime == Ring_sub(
                 Ring_mul(Ring_mul(z2_squared, self[1], qq), self[3], qq),
                 Ring_mul(Ring_mul(y1_squared, other[1], qq), other[2], qq),
                 qq)
             y3_prime == Ring_sub(
                 Ring_mul(Ring_mul(y2_squared, self[2], qq), self[3], qq),
                 Ring_mul(Ring_mul(x1_squared, other[1], qq), other[3], qq),
                 qq)
             z3_prime == Ring_sub(
                 Ring_mul(Ring_mul(Ring_mul(aa, x2_squared, qq), self[1],
                                   qq), self[2], qq),
                 Ring_mul(Ring_mul(z1_squared, other[2], qq), other[3], qq),
                 qq)
         IN  Projective_new(x3_prime, y3_prime, z3_prime) :
            self \in {p1}, other \in {p2}})

\* formula (2) of add: [X'3 : Y'3 : Z'3]
formula_2(p1, p2, aa, qq) ==
    Val({LET x1_squared == Ring_mul(self[1], self[1], qq)
             x2_squared == Ring_mul(other[1], other[1], qq)
             y1_squared == Ring_mul(self[2], self[2], qq)
             y2_squared == Ring_mul(other[2], other[2], qq)
             z1_squared == Ring_mul(self[3], self[3], qq)
             z2_squared == Ring_mul(other[3], other[3], qq)
             x3_prime == Ring_sub(
                 Ring_mul(Ring_mul(z2_squared, self[1], qq), self[3], qq),
                 Ring_mul(Ring_mul(y1_squared, other[1], qq), other[2], qq),
                 qq)
             y3_prime == Ring_sub(
                 Ring_mul(Ring_mul(y2_squared, self[2], qq), self[3], qq),
                 Ring_mul(Ring_mul(Ring_mul(aa, x1_squared, qq), other[1],
                                   qq), other[3], qq),
                 qq)
             z3_prime == Ring_sub(
                 Ring_mul(Ring_mul(Ring_mul(aa, x2_squared, qq), self[1],
                                   qq), self[2], qq),
                 Ring_mul(Ring_mul(z1_squared, other[2], qq), other[3], qq),
                 qq)
         IN  Projective_new(x3_prime, y3_prime, z3_prime) :
            self \in {p1}, other \in {p2}})

\* add that returns the formula (2) triple without testing it for zero
add_second_unchecked(p1, p2, aa, qq) ==
    Val({Val({IF is_zero(first)
              THEN OkPoint(formula_2(self, other, aa, qq))
              ELSE OkPoint(first) :
                 first \in {formula_1(self, other, qq)}}) :
            self \in {p1}, other \in {p2}})

add(p1, p2, aa, qq) ==
    Val({Val({IF is_zero(first)
              THEN Val({IF is_zero(second)
                        THEN PanicPoint
                        ELSE OkPoint(second) :
                           second \in {formula_2(self, other, aa, qq)}})
              ELSE OkPoint(first) :
                 first \in {formula_1(self, other, qq)}}) :
            self \in {p1}, other \in {p2}})

double(p1, aa, qq) == Val({add(self, self, aa, qq) : self \in {p1}})

\* the while loop of scalar_mul: one call is one iteration
RECURSIVE scalar_mul_loop(_, _, _, _, _)
scalar_mul_loop(result, temp, kk, aa, qq) ==
    IF kk > 0
    THEN Val({IF ~r1.ok \/ ~t1.ok
              THEN PanicPoint
              ELSE scalar_mul_loop(r1.pt, t1.pt, kk \div 2, aa, qq) :
                 r1 \in {IF kk % 2 = 1
                         THEN add(result, temp, aa, qq)
                         ELSE OkPoint(result)},
                 t1 \in {double(temp, aa, qq)}})
    ELSE OkPoint(result)

\* scalar_mul with the accumulator started at self instead of the identity
scalar_mul_from_self(p1, scalar, aa, qq) ==
    Val({scalar_mul_loop(self, self, scalar, aa, qq) : self \in {p1}})

scalar_mul(p1, scalar, aa, qq) ==
    Val({scalar_mul_loop(identity(qq), self, scalar, aa, qq) :
            self \in {p1}})

(***************************************************************************)
(* curve.rs                                                                *)
(***************************************************************************)
\* new with d squared where the code has d cubed
TwistedHessianCurve_new_d_squared(aa, dd, qq) ==
    LET d_squared == Ring_mul(dd, dd, qq)
        twenty_seven == from_field(Fq_new(27 % qq, qq), qq)
        term == Ring_sub(Ring_mul(twenty_seven, aa, qq), d_squared, qq)
        check == Ring_mul(aa, term, qq)
    IN  [ok |-> is_invertible(check), a |-> aa, d |-> dd]

TwistedHessianCurve_new(aa, dd, qq) ==
    LET d_cubed == Ring_mul(Ring_mul(dd, dd, qq), dd, qq)
        twenty_seven == from_field(Fq_new(27 % qq, qq), qq)
        term == Ring_sub(Ring_mul(twenty_seven, aa, qq), d_cubed, qq)
        check == Ring_mul(aa, term, qq)
    IN  [ok |-> is_invertible(check), a |-> aa, d |-> dd]

contains(point, aa, dd, qq) == is_on_curve(point, aa, dd, qq)

curve_add(p1, p2, aa, dd, qq) ==
    Val({IF ~asserts(contains(p, aa, dd, qq)) THEN PanicPoint
         ELSE IF ~asserts(contains(pq, aa, dd, qq)) THEN PanicPoint
         ELSE add(p, pq, aa, qq) :
            p \in {p1}, pq \in {p2}})

\* curve.scalar_mul without the membership assert
curve_scalar_mul_unchecked(p1, scalar, aa, dd, qq) ==
    Val({scalar_mul(p, scalar, aa, qq) : p \in {p1}})

curve_scalar_mul(p1, scalar, aa, dd, qq) ==
    Val({IF ~asserts(contains(p, aa, dd, qq)) THEN PanicPoint
         ELSE scalar_mul(p, scalar, aa, qq) :
            p \in {p1}})

\* multiple.is_equal(&identity) on the outcome of a scalar_mul
equals_identity(res, qq) ==
    Val({IF multiple.ok
         THEN is_equal(multiple.pt, identity(qq), qq)
         ELSE PanicBool :
            multiple \in {res}})

\* the for loop of point_order from `order` up to max_possible_order
RECURSIVE point_order_loop(_, _, _, _, _, _)
point_order_loop(point, order, max_possible_order, aa, dd, qq) ==
    IF order > max_possible_order
    THEN PanicNum
    ELSE Val({
        IF ~hit.ok THEN PanicNum
        ELSE IF hit.b
        THEN Val({
            IF ~previous.ok THEN PanicNum
            ELSE IF ~previous.b THEN OkNum(order)
            ELSE point_order_loop(point, order + 1, max_possible_order,
                                  aa, dd, qq) :
               previous \in {equals_identity(
                   curve_scalar_mul(point, order - 1, aa, dd, qq), qq)}})
        ELSE point_order_loop(point, order + 1, max_possible_order,
                              aa, dd, qq) :
           hit \in {equals_identity(
               curve_scalar_mul(point, order, aa, dd, qq), qq)}})

\* point_order without the early return for the identity
point_order_no_identity_case(p1, aa, dd, qq) ==
    Val({IF ~asserts(contains(point, aa, dd, qq)) THEN PanicNum
         ELSE Val({IF ~first.ok THEN PanicNum
                   ELSE point_order_loop(point, 2, qq * qq, aa, dd, qq) :
                      first \in {is_equal(point, identity(qq), qq)}}) :
            point \in {p1}})

point_order(p1, aa, dd, qq) ==
    Val({IF ~asserts(contains(point, aa, dd, qq)) THEN PanicNum
         ELSE Val({IF ~first.ok THEN PanicNum
                   ELSE IF first.b THEN OkNum(1)
                   ELSE point_order_loop(point, 2, qq * qq, aa, dd, qq) :
                      first \in {is_equal(point, identity(qq), qq)}}) :
            point \in {p1}})

(***************************************************************************)
(* dh.rs                                                                   *)
(***************************************************************************)
\* DiffieHellman::new without the check of the claimed order
DiffieHellman_new_any_order(aa, dd, p1, order, qq) ==
    Val({[ok |-> asserts(contains(generator, aa, dd, qq)),
          generator |-> generator, order |-> order] :
            generator \in {p1}})

DiffieHellman_new(aa, dd, p1, order, qq) ==
    Val({IF ~asserts(contains(generator, aa, dd, qq))
         THEN [ok |-> FALSE, generator |-> generator, order |-> order]
         ELSE [ok |-> asserts(equals_identity(
                          curve_scalar_mul(generator, order, aa, dd, qq),
                          qq)),
               generator |-> generator, order |-> order] :
            generator \in {p1}})

generate_keypair(dh, sk1, aa, dd, qq) ==
    IF dh.order = 0
    THEN [ok |-> FALSE, sk |-> 0, pk |-> PanicPoint.pt]
    ELSE Val({IF private_key = 0
              THEN [ok |-> FALSE, sk |-> private_key, pk |-> PanicPoint.pt]
              ELSE Val({[ok |-> public_key.ok, sk |-> private_key,
                         pk |-> public_key.pt] :
                           public_key \in {curve_scalar_mul(
                               dh.generator, private_key, aa, dd, qq)}}) :
                 private_key \in {sk1 % dh.order}})

compute_shared_secret(private_key, pk1, aa, dd, qq) ==
    Val({IF ~asserts(contains(public_key, aa, dd, qq)) THEN PanicPoint
         ELSE curve_scalar_mul(public_key, private_key, aa, dd, qq) :
            public_key \in {pk1}})

simulate_key_exchange(dh, alice_private, bob_private, aa, dd, qq) ==
    Val({IF ~alice.ok \/ ~bob.ok
         THEN [ok |-> FALSE, alice_shared |-> PanicPoint.pt,
               bob_shared |-> PanicPoint.pt]
         ELSE Val({IF ~alice_shared.ok \/ ~bob_shared.ok
                   THEN [ok |-> FALSE, alice_shared |-> PanicPoint.pt,
                         bob_shared |-> PanicPoint.pt]
                   ELSE [ok |-> TRUE, alice_shared |-> alice_shared.pt,
                         bob_shared |-> bob_shared.pt] :
                      alice_shared \in {compute_shared_secret(
                          alice_private, bob.pk, aa, dd, qq)},
                      bob_shared \in {compute_shared_secret(
                          bob_private, alice.pk, aa, dd, qq)}}) :
            alice \in {generate_keypair(dh, alice_private, aa, dd, qq)},
            bob \in {generate_keypair(dh, bob_private, aa, dd, qq)}})

(***************************************************************************)
(* The state: a curve (q, a, d) that TwistedHessianCurve::new accepted,    *)
(* the operands P, Q, R, k, sk of the next call, the order n given to      *)
(* DiffieHellman::new with P as generator, the name op of the last call    *)
(* ("init" before any call) and its outcome out.                           *)
(***************************************************************************)
KatA == RingElement_new(Fq_new(1, KatQ), Fq_new(1, KatQ))

KatD == RingElement_new(Fq_new(1, KatQ), Fq_new(1, KatQ))

KatG ==
    Projective_new(from_field(Fq_new(1, KatQ), KatQ),
                   from_field(Fq_new(2, KatQ), KatQ),
                   RingElement_new(Fq_new(3, KatQ), Fq_new(1, KatQ)))

Kat4P ==
    Projective_new(from_field(Fq_new(1, KatQ), KatQ),
                   from_field(Fq_new(4, KatQ), KatQ),
                   RingElement_new(Fq_new(3, KatQ), Fq_new(2, KatQ)))

Kat5P ==
    Projective_new(from_field(Fq_new(1, KatQ), KatQ),
                   RingElement_new(Fq_new(3, KatQ), Fq_new(2, KatQ)),
                   RingElement_new(Fq_new(4, KatQ), Fq_new(3, KatQ)))

Kat35P ==
    Projective_new(from_field(Fq_new(1, KatQ), KatQ),
                   from_field(Fq_new(3, KatQ), KatQ),
                   from_field(Fq_new(2, KatQ), KatQ))

\* the instance DiffieHellman::new returned, read from the state
dh_of_state == [ok |-> TRUE, generator |-> P, order |-> n]

\* p1.is_equal(&p2) returned true
Same(p1, p2, qq) == asserts(is_equal(p1, p2, qq))

(***************************************************************************)
(* The known-answer curve of the paper: F_5[eps], a = d = 1 + eps,         *)
(* generator [1 : 2 : 3 + eps] of order 45.                                *)
(***************************************************************************)
InitKat ==
    /\ q = KatQ
    /\ a = KatA
    /\ d = KatD
    /\ P = KatG
    /\ Q = identity(KatQ)
    /\ R = identity(KatQ)
    /\ n = KatOrder
    /\ k \in 0..KatMaxScalar
    /\ sk \in 0..KatMaxScalar
    /\ op = "init"
    /\ out = PanicPoint

\* p.scalar_mul(k, a)
ProjectiveScalarMul ==
    /\ op = "init"
    /\ op' = "scalar_mul"
    /\ out' = scalar_mul(P, k, a, q)
    /\ UNCHANGED <<q, a, d, P, Q, R, n, k, sk>>

\* dh.generate_keypair(k)
GenerateKeypair ==
    /\ op = "init"
    /\ op' = "generate_keypair"
    /\ out' = generate_keypair(dh_of_state, k, a, d, q)
    /\ UNCHANGED <<q, a, d, P, Q, R, n, k, sk>>

\* dh.compute_shared_secret(sk, pk) on the public key just generated
ComputeSharedSecret ==
    /\ op = "generate_keypair"
    /\ out.ok
    /\ op' = "compute_shared_secret"
    /\ Q' = out.pk
    /\ out' = compute_shared_secret(sk, out.pk, a, d, q)
    /\ UNCHANGED <<q, a, d, P, R, n, k, sk>>

\* simulate_key_exchange(&dh, k, sk)
SimulateKeyExchange ==
    /\ op = "init"
    /\ op' = "simulate_key_exchange"
    /\ out' = simulate_key_exchange(dh_of_state, k, sk, a, d, q)
    /\ UNCHANGED <<q, a, d, P, Q, R, n, k, sk>>

NextKat ==
    \/ ProjectiveScalarMul
    \/ GenerateKeypair
    \/ ComputeSharedSecret
    \/ SimulateKeyExchange

SpecKat == InitKat /\ [][NextKat]_vars

(***************************************************************************)
(* Every curve over F_q[eps] for the moduli of the model, with operands    *)
(* drawn from the triples curve.contains accepts.                          *)
(***************************************************************************)
\* the parameters (a, d) TwistedHessianCurve::new accepts, with the eps
\* coefficients of a and d up to MaxEps
Curves(qq) ==
    LET params == (0..(qq - 1)) \X (0..Min(MaxEps, qq - 1))
    IN  {c \in params \X params :
            TwistedHessianCurve_new(c[1], c[2], qq).ok}

OnCurve(aa, dd, qq) ==
    {t : t \in {u \in Triples(qq) : asserts(contains(u, aa, dd, qq))}}

InitAdd ==
    \E qq \in Moduli : \E c \in Curves(qq) :
        \E S \in {OnCurve(c[1], c[2], qq)} : \E pp \in S : \E pq \in S :
            /\ q = qq
            /\ a = c[1]
            /\ d = c[2]
            /\ P = pp
            /\ Q = pq
            /\ R = identity(qq)
            /\ n = 0
            /\ k = 0
            /\ sk = 0
            /\ op = "init"
            /\ out = PanicPoint

\* curve.add(&P, &Q)
CurveAdd ==
    /\ op = "init"
    /\ op' = "add"
    /\ out' = curve_add(P, Q, a, d, q)
    /\ UNCHANGED <<q, a, d, P, Q, R, n, k, sk>>

NextAdd == CurveAdd

SpecAdd == InitAdd /\ [][NextAdd]_vars

(***************************************************************************)
(* C7: for all on-curve P, Q the point add(P, Q, a) is_equal add(Q, P, a), *)
(* also when it comes from formula (2).                                    *)
(***************************************************************************)
C7_AddCommutes ==
    (op = "add" /\ out.ok) =>
        LET back == add(Q, P, a, q)
        IN  back.ok /\ Same(out.pt, back.pt, q)

\* a commuting pair with distinct operands whose sum came from formula (2)
C7_Witness ==
    /\ op = "add" /\ out.ok /\ P # Q
    /\ out.pt = formula_2(P, Q, a, q)
    /\ Same(out.pt, add(Q, P, a, q).pt, q)

(***************************************************************************)
(* Point orders on every curve of the model.                               *)
(***************************************************************************)
InitOrder ==
    \E qq \in Moduli : \E c \in Curves(qq) :
        \E pp \in OnCurve(c[1], c[2], qq) :
            /\ q = qq
            /\ a = c[1]
            /\ d = c[2]
            /\ P = pp
            /\ Q = identity(qq)
            /\ R = identity(qq)
            /\ n = 0
            /\ k = 0
            /\ sk = 0
            /\ op = "init"
            /\ out = PanicPoint

\* curve.point_order(&P)
PointOrder ==
    /\ op = "init"
    /\ op' = "point_order"
    /\ out' = point_order(P, a, d, q)
    /\ UNCHANGED <<q, a, d, P, Q, R, n, k, sk>>

NextOrder == PointOrder

SpecOrder == InitOrder /\ [][NextOrder]_vars

(***************************************************************************)
(* C10: whenever point_order(P) returns k, k * P is_equal the identity and *)
(* no 0 < j < k has scalar_mul(P, j) is_equal the identity; it returns 1   *)
(* when P is_equal the identity (1 * P is P itself).                       *)
(***************************************************************************)
C10_PointOrderLeast ==
    op = "point_order" =>
        /\ out.ok =>
            /\ out.n >= 1
            /\ out.n = 1 => Same(P, identity(q), q)
            /\ out.n > 1 =>
                   LET m == scalar_mul(P, out.n, a, q)
                   IN  m.ok /\ Same(m.pt, identity(q), q)
            /\ \A j \in 1..(out.n - 1) :
                   LET m == scalar_mul(P, j, a, q)
                   IN  ~(m.ok /\ Same(m.pt, identity(q), q))
        /\ Same(P, identity(q), q) => (out.ok /\ out.n = 1)

\* the search ran and returned an order above 2
C10_Witness ==
    /\ op = "point_order" /\ out.ok /\ out.n > 2
    /\ Same(scalar_mul(P, out.n, a, q).pt, identity(q), q)

(***************************************************************************)
(* The points the library itself returns on the known-answer curve: the    *)
(* multiples scalar_mul(G, i), added to each other.                        *)
(***************************************************************************)
Orbit ==
    LET runs == {scalar_mul(KatG, i, KatA, KatQ) : i \in 0..KatMaxScalar}
    IN  {r.pt : r \in {x \in runs : x.ok}}

\* the points the tests of projective.rs write down
Thirds == {KatG, Kat4P, Kat5P, Kat35P}

InitOrbit ==
    /\ q = KatQ
    /\ a = KatA
    /\ d = KatD
    /\ P \in Orbit
    /\ Q \in Orbit
    /\ R = identity(KatQ)
    /\ n = KatOrder
    /\ k = 0
    /\ sk = 0
    /\ op = "init"
    /\ out = PanicPoint

\* curve.add(&P, &P.negate())
AddNegate ==
    /\ op = "init"
    /\ op' = "add_negate"
    /\ out' = curve_add(P, negate(P), a, d, q)
    /\ UNCHANGED <<q, a, d, P, Q, R, n, k, sk>>

\* curve.add(&curve.add(&P, &Q), &R) for a third point R
AddLeft ==
    /\ op = "init"
    /\ \E r \in Thirds :
        /\ R' = r
        /\ out' = Val({IF pq.ok THEN curve_add(pq.pt, r, a, d, q)
                        ELSE PanicPoint :
                           pq \in {curve_add(P, Q, a, d, q)}})
    /\ op' = "add_left"
    /\ UNCHANGED <<q, a, d, P, Q, n, k, sk>>

NextOrbit == CurveAdd \/ AddNegate \/ AddLeft

SpecOrbit == InitOrbit /\ [][NextOrbit]_vars

(***************************************************************************)
(* C3: for every non-singular curve and every pair P, Q that               *)
(* curve.contains accepts, curve.add(P, Q) returns a point.                *)
(***************************************************************************)
C3_AddTotalOnCurve ==
    (op = "add" /\ asserts(contains(P, a, d, q))
                /\ asserts(contains(Q, a, d, q))) => out.ok

(***************************************************************************)
(* C4: for every on-curve P and k >= 0, scalar_mul(P, 0, a) is the         *)
(* identity [0 : q-1 : 1], and scalar_mul(P, k+1, a) completes and         *)
(* is_equal add(scalar_mul(P, k, a), P, a).                                *)
(***************************************************************************)
C4_ScalarMulStep ==
    (op = "scalar_mul" /\ asserts(contains(P, a, d, q))) =>
        /\ k = 0 => (out.ok /\ out.pt = identity(q))
        /\ LET next == scalar_mul(P, k + 1, a, q)
               step == IF out.ok THEN add(out.pt, P, a, q) ELSE PanicPoint
           IN  next.ok /\ step.ok /\ Same(next.pt, step.pt, q)

(***************************************************************************)
(* C5: for every on-curve P, add(P, identity) and add(identity, P)         *)
(* complete and are is_equal to P.                                         *)
(***************************************************************************)
C5_IdentityNeutral ==
    /\ (op = "add" /\ asserts(contains(P, a, d, q)) /\ Q = identity(q)) =>
           (out.ok /\ Same(out.pt, P, q))
    /\ (op = "add" /\ asserts(contains(Q, a, d, q)) /\ P = identity(q)) =>
           (out.ok /\ Same(out.pt, Q, q))

(***************************************************************************)
(* C6: for every on-curve P, add(P, P.negate()) completes and is_equal     *)
(* to the identity.                                                        *)
(***************************************************************************)
C6_NegateInverse ==
    (op = "add_negate" /\ asserts(contains(P, a, d, q))) =>
        (out.ok /\ Same(out.pt, identity(q), q))

(***************************************************************************)
(* C8: for all on-curve P, Q, R, add(add(P, Q), R) and add(P, add(Q, R))   *)
(* both complete and are is_equal to each other.                           *)
(***************************************************************************)
C8_AddAssociative ==
    (/\ op = "add_left"
     /\ asserts(contains(P, a, d, q))
     /\ asserts(contains(Q, a, d, q))
     /\ asserts(contains(R, a, d, q))) =>
        LET qr == add(Q, R, a, q)
            right == IF qr.ok THEN add(P, qr.pt, a, q) ELSE PanicPoint
        IN  out.ok /\ right.ok /\ Same(out.pt, right.pt, q)

(***************************************************************************)
(* C1: on the F_5[eps] curve a = d = 1 + eps with P = [1 : 2 : 3 + eps],   *)
(* scalar_mul(P, 4, a) is_equal [1 : 4 : 3 + 2 eps], scalar_mul(P, 5, a)   *)
(* is_equal [1 : 3 + 2 eps : 4 + 3 eps] and scalar_mul(P, 35, a) is_equal  *)
(* [1 : 3 : 2].                                                            *)
(***************************************************************************)
C1_PaperMultiples ==
    (op = "scalar_mul" /\ P = KatG /\ a = KatA /\ q = KatQ) =>
        /\ k = 4 => (out.ok /\ Same(out.pt, Kat4P, q))
        /\ k = 5 => (out.ok /\ Same(out.pt, Kat5P, q))
        /\ k = 35 => (out.ok /\ Same(out.pt, Kat35P, q))

C1_Witness ==
    op = "scalar_mul" /\ P = KatG /\ k = 35 /\ out.ok
        /\ Same(out.pt, Kat35P, q)

(***************************************************************************)
(* C2: for a DiffieHellman instance (on-curve generator, n * G = identity) *)
(* and private keys skA, skB non-zero mod n, both shared secrets of        *)
(* simulate_key_exchange complete and are is_equal; on the known-answer    *)
(* curve with skA = 4, skB = 35 both are is_equal [1 : 3+2eps : 4+3eps].   *)
(***************************************************************************)
C2_SharedSecretsAgree ==
    (/\ op = "simulate_key_exchange"
     /\ DiffieHellman_new(a, d, P, n, q).ok
     /\ k % n # 0
     /\ sk % n # 0) =>
        /\ out.ok
        /\ Same(out.alice_shared, out.bob_shared, q)
        /\ (k = 4 /\ sk = 35) =>
               /\ Same(out.alice_shared, Kat5P, q)
               /\ Same(out.bob_shared, Kat5P, q)

(***************************************************************************)
(* C9: on the known-answer curve scalar_mul(G, 45) is_equal the identity   *)
(* and scalar_mul(G, k) is not is_equal the identity for 0 < k < 45.       *)
(***************************************************************************)
C9_OrderExactly45 ==
    (op = "scalar_mul" /\ P = KatG /\ a = KatA /\ q = KatQ) =>
        /\ k = KatOrder => (out.ok /\ Same(out.pt, identity(q), q))
        /\ (0 < k /\ k < KatOrder) =>
               /\ out.ok
               /\ is_equal(out.pt, identity(q), q) = OkBool(FALSE)

C9_Witness ==
    op = "scalar_mul" /\ P = KatG /\ k = KatOrder /\ out.ok
        /\ Same(out.pt, identity(q), q)

(***************************************************************************)
(* Fq::inv on every element of Fq<q> for every modulus 2..MaxModulus,      *)
(* prime or not.  The element inverted is k.                               *)
(***************************************************************************)
InitInv ==
    \E qq \in 2..MaxModulus :
        /\ q = qq
        /\ a = from_field(Fq_new(0, qq), qq)
        /\ d = from_field(Fq_new(0, qq), qq)
        /\ P = identity(qq)
        /\ Q = identity(qq)
        /\ R = identity(qq)
        /\ n = 0
        /\ k \in 0..(qq - 1)
        /\ sk = 0
        /\ op = "init"
        /\ out = PanicFq

\* Fq::<q>::new(k).inv()
FqInv ==
    /\ op = "init"
    /\ op' = "inv"
    /\ out' = Fq_inv(Fq_new(k, q), q)
    /\ UNCHANGED <<q, a, d, P, Q, R, n, k, sk>>

NextInv == FqInv

SpecInv == InitInv /\ [][NextInv]_vars

(***************************************************************************)
(* C19: for every prime q and every a # 0 of F_q, Fq::inv(a) completes     *)
(* and returns r in 0..q-1 with a * r = 1 mod q; over F_11 the inverses    *)
(* of 5, 2 and 3 are 9, 6 and 4.                                           *)
(***************************************************************************)
C19_InvOnPrimeField ==
    (op = "inv" /\ IsPrime(q) /\ k # 0) =>
        /\ out.ok
        /\ out.v \in 0..(q - 1)
        /\ (k * out.v) % q = 1
        /\ (q = 11 /\ k = 5) => out.v = 9
        /\ (q = 11 /\ k = 2) => out.v = 6
        /\ (q = 11 /\ k = 3) => out.v = 4

\* the inverse of 5 in F_11 was computed
C19_Witness ==
    op = "inv" /\ q = 11 /\ k = 5 /\ out.ok /\ out.v = 9

(***************************************************************************)
(* C20: for every modulus q > 1 and every v in 0..q-1, Fq::inv fails       *)
(* exactly when v = 0 or gcd(v, q) # 1, and otherwise returns r in 0..q-1  *)
(* with v * r = 1 mod q.                                                   *)
(***************************************************************************)
C20_InvFailsExactlyWithoutInverse ==
    op = "inv" =>
        LET shares_factor == \E m \in 2..q : k % m = 0 /\ q % m = 0
        IN  /\ out.ok = ~(k = 0 \/ shares_factor)
            /\ out.ok => (out.v \in 0..(q - 1) /\ (k * out.v) % q = 1)

\* the inverse of 2 modulo 4 was asked for and refused
C20_Witness ==
    op = "inv" /\ q = 4 /\ k = 2 /\ ~out.ok

(***************************************************************************)
(* Diffie-Hellman instances on the known-answer curve: generators on and   *)
(* off the curve, every claimed order up to KatOrder, private keys up to   *)
(* MaxKey.                                                                 *)
(***************************************************************************)
\* two triples that are not on the known-answer curve
KatOff ==
    {Projective_new(from_field(Fq_new(1, KatQ), KatQ),
                    from_field(Fq_new(0, KatQ), KatQ),
                    from_field(Fq_new(0, KatQ), KatQ)),
     Projective_new(from_field(Fq_new(1, KatQ), KatQ),
                    from_field(Fq_new(1, KatQ), KatQ),
                    from_field(Fq_new(1, KatQ), KatQ))}

Gens == Thirds \cup KatOff

InitDh ==
    /\ q = KatQ
    /\ a = KatA
    /\ d = KatD
    /\ P \in Gens
    /\ Q = identity(KatQ)
    /\ R = identity(KatQ)
    /\ n \in 0..KatOrder
    /\ k = 0
    /\ sk = 0
    /\ op = "init"
    /\ out = PanicPoint

\* DiffieHellman::new(curve, P, n)
DhNew ==
    /\ op = "init"
    /\ op' = "dh_new"
    /\ out' = DiffieHellman_new(a, d, P, n, q)
    /\ UNCHANGED <<q, a, d, P, Q, R, n, k, sk>>

\* dh.generate_keypair(key) on the instance new returned
DhGenerateKeypair ==
    /\ op = "dh_new"
    /\ out.ok
    /\ \E key \in 0..MaxKey :
        /\ k' = key
        /\ out' = generate_keypair(out, key, a, d, q)
    /\ op' = "dh_keypair"
    /\ UNCHANGED <<q, a, d, P, Q, R, n, sk>>

NextDh == DhNew \/ DhGenerateKeypair \/ PointOrder

SpecDh == InitDh /\ [][NextDh]_vars

(***************************************************************************)
(* C11: for every point P that curve.contains accepts, point_order(P)      *)
(* returns a value: the search over 2..q^2 never ends in the "Could not    *)
(* determine the order" failure.                                           *)
(***************************************************************************)
C11_PointOrderReturns ==
    (op = "point_order" /\ asserts(contains(P, a, d, q))) => out.ok

(***************************************************************************)
(* C14: DiffieHellman::new(curve, G, order) succeeds only if               *)
(* curve.contains(G) and scalar_mul(G, order) is_equal the identity, and   *)
(* fails in every other case.                                              *)
(***************************************************************************)
C14_DhNewVerifiesOrder ==
    op = "dh_new" =>
        out.ok = (/\ asserts(contains(P, a, d, q))
                  /\ scalar_mul(P, n, a, q).ok
                  /\ Same(scalar_mul(P, n, a, q).pt, identity(q), q))

\* an instance was built for an order above 1 and refused for another
C14_Witness ==
    /\ op = "dh_new" /\ out.ok /\ n > 1
    /\ out.generator = P /\ out.order = n
    /\ ~DiffieHellman_new(a, d, P, n - 1, q).ok

(***************************************************************************)
(* C15: generate_keypair(sk) fails when sk mod order = 0 and otherwise     *)
(* returns (sk mod order, pk) with pk = scalar_mul(G, sk mod order), which *)
(* is_equal scalar_mul(G, sk); the private key returned is in 1..order-1.  *)
(***************************************************************************)
C15_KeypairReduced ==
    op = "dh_keypair" =>
        IF n = 0 \/ k % n = 0
        THEN ~out.ok
        ELSE /\ out.ok
             /\ out.sk = k % n
             /\ out.sk \in 1..(n - 1)
             /\ out.pk = scalar_mul(P, k % n, a, q).pt
             /\ scalar_mul(P, k, a, q).ok
             /\ Same(out.pk, scalar_mul(P, k, a, q).pt, q)

(***************************************************************************)
(* TwistedHessianCurve::new on every pair of parameters over F_q[eps],     *)
(* for the moduli of the model and the modulus of the known-answer tests.  *)
(***************************************************************************)
InitNew ==
    \E qq \in Moduli \cup {KatQ} :
        /\ q = qq
        /\ a \in Ring(qq)
        /\ d \in Ring(qq)
        /\ P = identity(qq)
        /\ Q = identity(qq)
        /\ R = identity(qq)
        /\ n = 0
        /\ k = 0
        /\ sk = 0
        /\ op = "init"
        /\ out = PanicPoint

\* TwistedHessianCurve::new(a, d)
CurveNew ==
    /\ op = "init"
    /\ op' = "new"
    /\ out' = TwistedHessianCurve_new(a, d, q)
    /\ UNCHANGED <<q, a, d, P, Q, R, n, k, sk>>

NextNew == CurveNew

SpecNew == InitNew /\ [][NextNew]_vars

(***************************************************************************)
(* C12: TwistedHessianCurve::new(a, d) fails exactly when the constant     *)
(* term of a * (27a - d^3) is 0 mod q, and otherwise returns a curve       *)
(* storing a and d unchanged; over F_5[eps] it fails for (1, 3) and        *)
(* succeeds for (1, 2) and (1 + eps, 1 + eps).                             *)
(***************************************************************************)
C12_NewFailsExactlyOnSingular ==
    op = "new" =>
        LET a0 == a[1]
            d0 == d[1]
            term0 == (a0 * (27 * a0 + (q - 1) * d0 * d0 * d0)) % q
        IN  /\ out.ok = (term0 # 0)
            /\ out.ok => (out.a = a /\ out.d = d)
            /\ (q = KatQ /\ a = <<1, 0>> /\ d = <<3, 0>>) => ~out.ok
            /\ (q = KatQ /\ a = <<1, 0>> /\ d = <<2, 0>>) => out.ok
            /\ (q = KatQ /\ a = KatA /\ d = KatD) => out.ok

\* new refused the parameters (1, 3) over F_5[eps]
C12_Witness ==
    op = "new" /\ q = KatQ /\ a = <<1, 0>> /\ d = <<3, 0>> /\ ~out.ok

(***************************************************************************)
(* is_on_curve and curve.contains on every triple and every pair of        *)
(* parameters over F_q[eps] for the moduli of the model, and on the point  *)
(* of Section 3.2 of the paper over F_11[eps].                             *)
(***************************************************************************)
PaperA == RingElement_new(Fq_new(1, PaperQ), Fq_new(2, PaperQ))

PaperD == RingElement_new(Fq_new(2, PaperQ), Fq_new(1, PaperQ))

PaperP ==
    Projective_new(from_field(Fq_new(1, PaperQ), PaperQ),
                   RingElement_new(Fq_new(7, PaperQ), Fq_new(6, PaperQ)),
                   RingElement_new(Fq_new(4, PaperQ), Fq_new(6, PaperQ)))

InitOnCurve ==
    /\ \/ \E qq \in Moduli :
            /\ q = qq
            /\ a \in Ring(qq)
            /\ d \in Ring(qq)
            /\ P \in Triples(qq)
       \/ /\ q = PaperQ
          /\ a = PaperA
          /\ d = PaperD
          /\ P \in {PaperP, identity(PaperQ)}
    /\ Q = identity(q)
    /\ R = identity(q)
    /\ n = 0
    /\ k = 0
    /\ sk = 0
    /\ op = "init"
    /\ out = PanicBool

\* P.is_on_curve(a, d)
IsOnCurve ==
    /\ op = "init"
    /\ op' = "is_on_curve"
    /\ out' = is_on_curve(P, a, d, q)
    /\ UNCHANGED <<q, a, d, P, Q, R, n, k, sk>>

\* TwistedHessianCurve::new(a, d).contains(&P)
Contains ==
    /\ op = "init"
    /\ TwistedHessianCurve_new(a, d, q).ok
    /\ op' = "contains"
    /\ out' = contains(P, a, d, q)
    /\ UNCHANGED <<q, a, d, P, Q, R, n, k, sk>>

NextOnCurve == IsOnCurve \/ Contains

SpecOnCurve == InitOnCurve /\ [][NextOnCurve]_vars

(***************************************************************************)
(* C18: P.is_on_curve(a, d) fails when a * (27a - d^3) has zero constant   *)
(* term, and otherwise returns true exactly when a X^3 + Y^3 + Z^3 and     *)
(* d X Y Z agree in the constant and in the eps component; curve.contains  *)
(* returns the same value; the identity and the point [1 : 7+6eps :        *)
(* 4+6eps] of the F_11[eps] curve a = 1+2eps, d = 2+eps are on the curve.  *)
(***************************************************************************)
C18_OnCurveIsTheEquation ==
    LET a0 == a[1]
        a1 == a[2]
        d0 == d[1]
        d1 == d[2]
        x0 == P[1][1]
        x1 == P[1][2]
        y0 == P[2][1]
        y1 == P[2][2]
        z0 == P[3][1]
        z1 == P[3][2]
        singular == (a0 * (27 * a0 + (q - 1) * d0 * d0 * d0)) % q = 0
        left0 == (a0 * x0 * x0 * x0 + y0 * y0 * y0 + z0 * z0 * z0) % q
        right0 == (d0 * x0 * y0 * z0) % q
        left1 == (a1 * x0 * x0 * x0 + 3 * a0 * x0 * x0 * x1
                    + 3 * y0 * y0 * y1 + 3 * z0 * z0 * z1) % q
        right1 == (d1 * x0 * y0 * z0
                    + d0 * (x1 * y0 * z0 + x0 * y1 * z0 + x0 * y0 * z1)) % q
    IN  /\ op = "is_on_curve" =>
               IF singular
               THEN ~out.ok
               ELSE /\ out.ok
                    /\ out.b = (left0 = right0 /\ left1 = right1)
                    /\ P = identity(q) => out.b
                    /\ (q = PaperQ /\ P = PaperP) => out.b
        /\ op = "contains" =>
               /\ out = is_on_curve(P, a, d, q)
               /\ out.ok /\ out.b = (left0 = right0 /\ left1 = right1)

\* the point of Section 3.2 was found on its curve
C18_Witness ==
    op = "is_on_curve" /\ q = PaperQ /\ P = PaperP /\ out.ok /\ out.b

(***************************************************************************)
(* The curve operations on every triple over F_q[eps], on the curve or     *)
(* not, for the curves of the model.                                       *)
(***************************************************************************)
\* a second operand on every curve and one on none (a is invertible)
Seconds(qq) ==
    {identity(qq),
     Projective_new(from_field(Fq_new(1, qq), qq),
                    from_field(Fq_new(0, qq), qq),
                    from_field(Fq_new(0, qq), qq))}

InitOff ==
    \E qq \in Moduli : \E c \in Curves(qq) :
        /\ q = qq
        /\ a = c[1]
        /\ d = c[2]
        /\ P \in Triples(qq)
        /\ Q = identity(qq)
        /\ R = identity(qq)
        /\ n = 0
        /\ k = 0
        /\ sk = 0
        /\ op = "init"
        /\ out = PanicPoint

\* curve.add(&P, &s) for a second operand s
CurveAddTo ==
    /\ op = "init"
    /\ \E s \in Seconds(q) :
        /\ Q' = s
        /\ out' = curve_add(P, s, a, d, q)
    /\ op' = "add"
    /\ UNCHANGED <<q, a, d, P, R, n, k, sk>>

\* curve.add(&s, &P) for a first operand s
CurveAddFrom ==
    /\ op = "init"
    /\ \E s \in Seconds(q) :
        /\ Q' = s
        /\ out' = curve_add(s, P, a, d, q)
    /\ op' = "add_swapped"
    /\ UNCHANGED <<q, a, d, P, R, n, k, sk>>

\* curve.scalar_mul(&P, scalar)
CurveScalarMul ==
    /\ op = "init"
    /\ \E scalar \in 0..MaxMul :
        /\ k' = scalar
        /\ out' = curve_scalar_mul(P, scalar, a, d, q)
    /\ op' = "curve_scalar_mul"
    /\ UNCHANGED <<q, a, d, P, Q, R, n, sk>>

NextOff == CurveAddTo \/ CurveAddFrom \/ CurveScalarMul \/ PointOrder

SpecOff == InitOff /\ [][NextOff]_vars

(***************************************************************************)
(* C13: curve.add(P, Q) fails whenever P or Q does not satisfy             *)
(* curve.contains, and curve.scalar_mul(P, k), for every k including 0,    *)
(* and curve.point_order(P) fail whenever P does not satisfy               *)
(* curve.contains.                                                         *)
(***************************************************************************)
C13_OffCurveOperandsRefused ==
    LET off(t) == ~asserts(contains(t, a, d, q))
    IN  /\ (op \in {"add", "add_swapped"} /\ (off(P) \/ off(Q))) => ~out.ok
        /\ (op \in {"curve_scalar_mul", "point_order"} /\ off(P)) => ~out.ok

\* scalar_mul by 0 of a triple off the curve was refused
C13_Witness ==
    /\ op = "curve_scalar_mul" /\ k = 0
    /\ ~asserts(contains(P, a, d, q))
    /\ ~out.ok

(***************************************************************************)
(* is_equal on pairs of triples over F_q[eps], the triple [0:0:0]          *)
(* included; the second operand has eps coefficients up to MaxEps.         *)
(***************************************************************************)
LowTriples(qq) ==
    {t \in Triples(qq) : \A i \in 1..3 : epsilon_coeff(t[i]) <= MaxEps}

InitEqual ==
    \E qq \in Moduli :
        /\ q = qq
        /\ a = from_field(Fq_new(0, qq), qq)
        /\ d = from_field(Fq_new(0, qq), qq)
        /\ P \in Triples(qq)
        /\ Q \in LowTriples(qq)
        /\ R = identity(qq)
        /\ n = 0
        /\ k = 0
        /\ sk = 0
        /\ op = "init"
        /\ out = PanicBool

\* P.is_equal(&Q)
IsEqual ==
    /\ op = "init"
    /\ op' = "is_equal"
    /\ out' = is_equal(P, Q, q)
    /\ UNCHANGED <<q, a, d, P, Q, R, n, k, sk>>

NextEqual == IsEqual

SpecEqual == InitEqual /\ [][NextEqual]_vars

(***************************************************************************)
(* C16: for all triples P, Q other than [0:0:0], P.is_equal(Q) returns     *)
(* true exactly when X1 Z2 = X2 Z1, Y1 Z2 = Y2 Z1 and X1 Y2 = X2 Y1 all    *)
(* hold in the ring.                                                       *)
(***************************************************************************)
C16_EqualIsThreeCrossProducts ==
    LET zero == <<<<0, 0>>, <<0, 0>>, <<0, 0>>>>
    IN  (op = "is_equal" /\ P # zero /\ Q # zero) =>
            /\ out.ok
            /\ out.b = (/\ Ring_mul(P[1], Q[3], q) = Ring_mul(Q[1], P[3], q)
                        /\ Ring_mul(P[2], Q[3], q) = Ring_mul(Q[2], P[3], q)
                        /\ Ring_mul(P[1], Q[2], q) = Ring_mul(Q[1], P[2], q))

(***************************************************************************)
(* C17: P.is_equal(Q) fails whenever P or Q is the triple [0:0:0] with     *)
(* all six components zero, and returns a boolean for every other pair.    *)
(***************************************************************************)
C17_EqualRefusesZeroTriple ==
    LET zero == <<<<0, 0>>, <<0, 0>>, <<0, 0>>>>
    IN  op = "is_equal" => (out.ok = (P # zero /\ Q # zero))

\* a comparison of a non-zero triple with [0:0:0] was refused
C17_Witness ==
    /\ op = "is_equal" /\ ~out.ok
    /\ P # <<<<0, 0>>, <<0, 0>>, <<0, 0>>>>
    /\ Q = <<<<0, 0>>, <<0, 0>>, <<0, 0>>>>

(***************************************************************************)
(* RingElement::inv on every element of F_q[eps] for every modulus         *)
(* 2..MaxModulus, and on the element 0 + 25 eps of the F_53 test.  The     *)
(* element inverted is a.                                                  *)
(***************************************************************************)
F53 == 53

InitRingInv ==
    \E qq \in (2..MaxModulus) \cup {F53} :
        /\ q = qq
        /\ IF qq = F53
           THEN a = RingElement_new(Fq_new(0, qq), Fq_new(25, qq))
           ELSE a \in Ring(qq)
        /\ d = from_field(Fq_new(0, qq), qq)
        /\ P = identity(qq)
        /\ Q = identity(qq)
        /\ R = identity(qq)
        /\ n = 0
        /\ k = 0
        /\ sk = 0
        /\ op = "init"
        /\ out = PanicRing

\* a.inv()
RingInv ==
    /\ op = "init"
    /\ op' = "ring_inv"
    /\ out' = Ring_inv(a, q)
    /\ UNCHANGED <<q, a, d, P, Q, R, n, k, sk>>

NextRingInv == RingInv

SpecRingInv == InitRingInv /\ [][NextRingInv]_vars

(***************************************************************************)
(* C21: for every prime q and every x = a + b eps of F_q[eps]: if a # 0    *)
(* then x.inv() completes, is a^-1 - b a^-2 eps, and x * x.inv() is        *)
(* 1 + 0 eps; if a = 0 then x.inv() fails whatever b is (0 + 25 eps over   *)
(* F_53 included); over F_11[eps] the inverse of 5 + 3 eps is 9 + 10 eps.  *)
(***************************************************************************)
C21_RingInv ==
    (op = "ring_inv" /\ IsPrime(q)) =>
        /\ constant(a) # 0 =>
               /\ out.ok
               /\ \E ai \in 1..(q - 1) :
                      /\ (constant(a) * ai) % q = 1
                      /\ constant(out.v) = ai
                      /\ (epsilon_coeff(out.v)
                            + epsilon_coeff(a) * ai * ai) % q = 0
               /\ Ring_mul(a, out.v, q) = <<1, 0>>
        /\ constant(a) = 0 => ~out.ok
        /\ (q = 11 /\ a = <<5, 3>>) => out.v = <<9, 10>>

\* 5 + 3 eps was inverted over F_11
C21_Witness ==
    op = "ring_inv" /\ q = 11 /\ a = <<5, 3>> /\ out.ok /\ out.v = <<9, 10>>

(***************************************************************************)
(* Fq::pow and Fq::is_minus_three_square for every modulus 2..MaxModulus,  *)
(* prime or not.  The base is n and the exponent is k.                     *)
(***************************************************************************)
InitField ==
    \E qq \in 2..MaxModulus :
        /\ q = qq
        /\ a = from_field(Fq_new(0, qq), qq)
        /\ d = from_field(Fq_new(0, qq), qq)
        /\ P = identity(qq)
        /\ Q = identity(qq)
        /\ R = identity(qq)
        /\ n \in 0..(qq - 1)
        /\ k \in 0..MaxModulus
        /\ sk = 0
        /\ op = "init"
        /\ out = PanicFq

\* Fq::<q>::new(n).pow(k)
FqPow ==
    /\ op = "init"
    /\ op' = "pow"
    /\ out' = OkFq(Fq_pow(Fq_new(n, q), k, q))
    /\ UNCHANGED <<q, a, d, P, Q, R, n, k, sk>>

\* Fq::<q>::is_minus_three_square()
IsMinusThreeSquare ==
    /\ op = "init"
    /\ op' = "is_minus_three_square"
    /\ out' = is_minus_three_square(q)
    /\ UNCHANGED <<q, a, d, P, Q, R, n, k, sk>>

NextField == FqPow \/ IsMinusThreeSquare

SpecField == InitField /\ [][NextField]_vars

(***************************************************************************)
(* C22: for every even modulus q > 1, q = 2 included,                      *)
(* Fq::<q>::is_minus_three_square() returns false.                         *)
(***************************************************************************)
C22_EvenModulusNotSquare ==
    (op = "is_minus_three_square" /\ q % 2 = 0) => out = OkBool(FALSE)

(***************************************************************************)
(* Every constructor and arithmetic operation of Fq, RingElement and       *)
(* Projective.  The field operands are the constant parts of a and d, the  *)
(* ring operands are a and d, the point operands are P and Q and the       *)
(* curve coefficient of add is a.  The operations take any element and     *)
(* any triple: nothing here is required to be on a curve.  With points     *)
(* other than the identity the eps coefficient of a is at most MaxEps.     *)
(***************************************************************************)
PointSeconds(p1, qq) == Seconds(qq) \cup {p1, negate(p1)}

LowRing(qq) == {x \in Ring(qq) : epsilon_coeff(x) <= MaxEps}

InitRange ==
    \E qq \in Moduli \cup {KatQ} :
        /\ q = qq
        /\ \/ /\ a \in Ring(qq)
              /\ d \in Ring(qq)
              /\ P = identity(qq)
              /\ Q = identity(qq)
           \/ /\ qq \in Moduli
              /\ a \in LowRing(qq)
              /\ d = from_field(Fq_new(0, qq), qq)
              /\ P \in Triples(qq)
              /\ Q \in PointSeconds(P, qq)
        /\ R = identity(qq)
        /\ n = 0
        /\ k = 0
        /\ sk = 0
        /\ op = "init"
        /\ out = PanicFq

\* Fq::<q>::new(value)
NewFq ==
    /\ op = "init"
    /\ op' = "fq_new"
    /\ \E value \in 0..MaxModulus :
           /\ n' = value
           /\ out' = OkFq(Fq_new(value, q))
    /\ UNCHANGED <<q, a, d, P, Q, R, k, sk>>

AddFq ==
    /\ op = "init"
    /\ op' = "fq_add"
    /\ out' = OkFq(Fq_add(constant(a), constant(d), q))
    /\ UNCHANGED <<q, a, d, P, Q, R, n, k, sk>>

SubFq ==
    /\ op = "init"
    /\ op' = "fq_sub"
    /\ out' = OkFq(Fq_sub(constant(a), constant(d), q))
    /\ UNCHANGED <<q, a, d, P, Q, R, n, k, sk>>

MulFq ==
    /\ op = "init"
    /\ op' = "fq_mul"
    /\ out' = OkFq(Fq_mul(constant(a), constant(d), q))
    /\ UNCHANGED <<q, a, d, P, Q, R, n, k, sk>>

InvFq ==
    /\ op = "init"
    /\ op' = "fq_inv"
    /\ out' = Fq_inv(constant(a), q)
    /\ UNCHANGED <<q, a, d, P, Q, R, n, k, sk>>

PowFq ==
    /\ op = "init"
    /\ op' = "fq_pow"
    /\ \E exponent \in 0..MaxMul :
           /\ k' = exponent
           /\ out' = OkFq(Fq_pow(constant(a), exponent, q))
    /\ UNCHANGED <<q, a, d, P, Q, R, n, sk>>

AddRing ==
    /\ op = "init"
    /\ op' = "ring_add"
    /\ out' = OkRing(Ring_add(a, d, q))
    /\ UNCHANGED <<q, a, d, P, Q, R, n, k, sk>>

SubRing ==
    /\ op = "init"
    /\ op' = "ring_sub"
    /\ out' = OkRing(Ring_sub(a, d, q))
    /\ UNCHANGED <<q, a, d, P, Q, R, n, k, sk>>

MulRing ==
    /\ op = "init"
    /\ op' = "ring_mul"
    /\ out' = OkRing(Ring_mul(a, d, q))
    /\ UNCHANGED <<q, a, d, P, Q, R, n, k, sk>>

InvRing ==
    /\ op = "init"
    /\ op' = "ring_inv"
    /\ out' = Ring_inv(a, q)
    /\ UNCHANGED <<q, a, d, P, Q, R, n, k, sk>>

PowRing ==
    /\ op = "init"
    /\ op' = "ring_pow"
    /\ \E exponent \in 0..MaxMul :
           /\ k' = exponent
           /\ out' = OkRing(Ring_pow(a, exponent, q))
    /\ UNCHANGED <<q, a, d, P, Q, R, n, sk>>

\* Projective::<q>::identity()
PointIdentity ==
    /\ op = "init"
    /\ op' = "identity"
    /\ out' = OkPoint(identity(q))
    /\ UNCHANGED <<q, a, d, P, Q, R, n, k, sk>>

\* P.negate()
PointNegate ==
    /\ op = "init"
    /\ op' = "negate"
    /\ out' = OkPoint(negate(P))
    /\ UNCHANGED <<q, a, d, P, Q, R, n, k, sk>>

\* P.add(&Q, a)
PointAdd ==
    /\ op = "init"
    /\ op' = "add"
    /\ out' = add(P, Q, a, q)
    /\ UNCHANGED <<q, a, d, P, Q, R, n, k, sk>>

\* P.double(a)
PointDouble ==
    /\ op = "init"
    /\ op' = "double"
    /\ out' = double(P, a, q)
    /\ UNCHANGED <<q, a, d, P, Q, R, n, k, sk>>

\* P.scalar_mul(scalar, a)
PointScalarMul ==
    /\ op = "init"
    /\ op' = "scalar_mul"
    /\ \E scalar \in 0..MaxMul :
           /\ k' = scalar
           /\ out' = scalar_mul(P, scalar, a, q)
    /\ UNCHANGED <<q, a, d, P, Q, R, n, sk>>

NextRange ==
    \/ NewFq
    \/ AddFq
    \/ SubFq
    \/ MulFq
    \/ InvFq
    \/ PowFq
    \/ AddRing
    \/ SubRing
    \/ MulRing
    \/ InvRing
    \/ PowRing
    \/ PointIdentity
    \/ PointNegate
    \/ PointAdd
    \/ PointDouble
    \/ PointScalarMul

SpecRange == InitRange /\ [][NextRange]_vars

(***************************************************************************)
(* C23: every Fq value produced by new, add, sub, mul, inv or pow is in    *)
(* 0..q-1; so both components of every RingElement produced by add, sub,   *)
(* mul, inv or pow, and all six components of every Projective produced    *)
(* by identity, negate, add, double or scalar_mul, are in 0..q-1.          *)
(***************************************************************************)
C23_ValuesInRange ==
    /\ (op \in {"fq_new", "fq_add", "fq_sub", "fq_mul", "fq_inv", "fq_pow"}
           /\ out.ok) =>
           out.v \in 0..(q - 1)
    /\ (op \in {"ring_add", "ring_sub", "ring_mul", "ring_inv", "ring_pow"}
           /\ out.ok) =>
           \A i \in 1..2 : out.v[i] \in 0..(q - 1)
    /\ (op \in {"identity", "negate", "add", "double", "scalar_mul"}
           /\ out.ok) =>
           \A i \in 1..3 : \A j \in 1..2 : out.pt[i][j] \in 0..(q - 1)

\* an element whose inverse has eps coefficient q - 0 before the reduction
\* was inverted
C23_Witness ==
    /\ op = "ring_inv"
    /\ q = KatQ
    /\ constant(a) = 2
    /\ epsilon_coeff(a) = 0
    /\ out.ok
    /\ out.v = <<3, 0>>

(***************************************************************************)
(* C24: Projective::add(P, Q, a) returns the formula (I) triple whenever   *)
(* that is not [0:0:0]; otherwise the formula (II) triple whenever that    *)
(* is not [0:0:0]; otherwise it fails.  It never returns [0:0:0], and      *)
(* neither do double or scalar_mul.                                        *)
(***************************************************************************)
C24_AddTwoFormulas ==
    /\ op = "add" =>
           IF ~is_zero(formula_1(P, Q, q))
           THEN out.ok /\ out.pt = formula_1(P, Q, q)
           ELSE IF ~is_zero(formula_2(P, Q, a, q))
           THEN out.ok /\ out.pt = formula_2(P, Q, a, q)
           ELSE ~out.ok
    /\ (op \in {"add", "double", "scalar_mul"} /\ out.ok) =>
           ~is_zero(out.pt)

\* formula (I) gave [0:0:0] and the formula (II) triple was returned
C24_Witness ==
    /\ op = "add"
    /\ is_zero(formula_1(P, Q, q))
    /\ out.ok
    /\ out.pt = formula_2(P, Q, a, q)
    /\ P # Q

(***************************************************************************)
(* C25: for every non-singular curve and on-curve operands P, Q that each  *)
(* have a coordinate with non-zero constant part, the triple add(P, Q, a)  *)
(* returns has such a coordinate too and is on the curve.                  *)
(***************************************************************************)
C25_AddKeepsInvertibleCoordinate ==
    (op = "add" /\ asserts(contains(P, a, d, q))
                /\ asserts(contains(Q, a, d, q))
                /\ (\E i \in 1..3 : is_invertible(P[i]))
                /\ (\E i \in 1..3 : is_invertible(Q[i]))) =>
        /\ out.ok
        /\ \E i \in 1..3 : is_invertible(out.pt[i])
        /\ asserts(contains(out.pt, a, d, q))

(***************************************************************************)
(* is_equal and is_identity on every triple P of F_q[eps], with the        *)
(* multiples u * P of P by every ring element u, invertible or not, and    *)
(* with the identity and [1 : 0 : 0] as Q.  The multiplier u is a and      *)
(* the multiple is R.                                                      *)
(***************************************************************************)
InitRelation ==
    \E qq \in Moduli :
        /\ q = qq
        /\ a = from_field(Fq_new(0, qq), qq)
        /\ d = from_field(Fq_new(0, qq), qq)
        /\ P \in Triples(qq)
        /\ Q \in Seconds(qq)
        /\ R = identity(qq)
        /\ n = 0
        /\ k = 0
        /\ sk = 0
        /\ op = "init"
        /\ out = PanicBool

\* P.is_equal(&Projective::new(u * P.x, u * P.y, u * P.z))
IsEqualMultiple ==
    /\ op = "init"
    /\ op' = "is_equal_multiple"
    /\ \E u \in Ring(q) :
           \E multiple \in {Projective_new(Ring_mul(u, P[1], q),
                                           Ring_mul(u, P[2], q),
                                           Ring_mul(u, P[3], q))} :
               /\ a' = u
               /\ R' = multiple
               /\ out' = is_equal(P, multiple, q)
    /\ UNCHANGED <<q, d, P, Q, n, k, sk>>

\* P.is_identity()
IsIdentity ==
    /\ op = "init"
    /\ op' = "is_identity"
    /\ out' = OkBool(is_identity(P, q))
    /\ UNCHANGED <<q, a, d, P, Q, R, n, k, sk>>

NextRelation == IsEqualMultiple \/ IsIdentity

SpecRelation == InitRelation /\ [][NextRelation]_vars

(***************************************************************************)
(* C26: on the triples other than [0:0:0], is_equal is an equivalence      *)
(* relation: P.is_equal(P) is true, P.is_equal(Q) implies Q.is_equal(P),   *)
(* P.is_equal(R) with R.is_equal(Q) implies P.is_equal(Q); and it holds    *)
(* between P and u * P for every invertible u.                             *)
(***************************************************************************)
C26_EqualIsEquivalence ==
    (op = "is_equal_multiple" /\ ~is_zero(P) /\ ~is_zero(Q) /\ ~is_zero(R)) =>
        /\ is_equal(P, P, q) = OkBool(TRUE)
        /\ is_equal(R, R, q) = OkBool(TRUE)
        /\ asserts(is_equal(P, Q, q)) => asserts(is_equal(Q, P, q))
        /\ asserts(is_equal(R, Q, q)) => asserts(is_equal(Q, R, q))
        /\ out.ok
        /\ out.b => asserts(is_equal(R, P, q))
        /\ (out.b /\ asserts(is_equal(R, Q, q))) => asserts(is_equal(P, Q, q))
        /\ is_invertible(a) => out.b

(***************************************************************************)
(* C27: for every triple P other than [0:0:0], P.is_identity() is true     *)
(* exactly when P.is_equal(&Projective::identity()) is true.               *)
(***************************************************************************)
C27_IsIdentityIsEqualIdentity ==
    (op = "is_identity" /\ ~is_zero(P)) =>
        /\ out.ok
        /\ out.b <=> asserts(is_equal(P, identity(q), q))
====
